---- MODULE Spec2Model ----
(***************************************************************************)
(* Model of the screenshot manager in src/Scale4_screenshot.py:            *)
(*   - convert_recorded_events_to_actions  (the action compiler)           *)
(*   - replay_actions_on_page              (the replay engine)             *)
(*   - take_screenshot_and_compare and the take_index / take_all handlers  *)
(*   - window.__selectClip                 (the region selector)           *)
(*   - window.__showInlineRecorder         (the inline recorder)           *)
(*   - _handle_binding and the Entry Store (the bridge)                    *)
(* Each component has its own variables and its own specification; the     *)
(* variables of the other components stay at their initial value.          *)
(***************************************************************************)
EXTENDS Integers, Sequences, FiniteSets, Bags, TLC

VARIABLES
    \* ---- action compiler ----
    events,     \* the raw event list handed to convert_recorded_events_to_actions
    cpc,        \* "idle" | "once" | "twice": how many times the list was compiled
    now1,       \* int(time.time()*1000) as read by the first call
    now2,       \* int(time.time()*1000) as read by the second call
    actions,    \* the list returned by the first call
    actions2,   \* the list returned by the second call on the same list
    \* ---- replay engine ----
    ract,       \* the actions argument of replay_actions_on_page
    ri,         \* position in ract of the loop variable act (0 before the loop)
    rpc,        \* the await (or return, or raise) the coroutine has reached
    rlog,       \* the calls made on the page and the sleeps, in the order made
    \* ---- take_index / take_all and take_screenshot_and_compare ----
    store,      \* the Entry Store: the list in screenshots.json
    fs,         \* the files under screenshots/: path -> content, or NoFile
    tcmd,       \* the command _handle_binding is running, "none" when it is not
    tdata,      \* data = load_json() of the running command
    ti,         \* position in tdata of the entry being taken
    tpc,        \* the await the running command has reached
    tupdated,   \* take_all's list `updated`
    tret,       \* what the last command returned (or that it raised)
    tjust,      \* bookkeeping: what the step just taken did to an artifact file
    \* ---- region selector, window.__selectClip ----
    slisten,    \* the listeners __selectClip has attached to window
    sstart,     \* <<startX, startY>>
    sbox,       \* the drag rectangle `box`: not made yet (null), or its size
    soverlay,   \* TRUE while the selector's overlay element is in the document
    sscroll,    \* <<window.scrollX, window.scrollY>>
    sresult,    \* the promise __selectClip returned: unresolved, null or a clip
    sjust,      \* bookkeeping: the event handled in the step just taken
    \* ---- inline recorder, window.__showInlineRecorder ----
    kactive,    \* window._inlineRecorderActive
    kbar,       \* TRUE while recorderBar (Start, Stop, hint) is in the document
    krecording, \* the closure's flag `recording`
    klisten,    \* the capture listeners attached to window
    kevents,    \* the closure's array `events`
    ktimers,    \* the stop timeouts (120 ms) that have not fired yet
    ksent,      \* the record_finished messages handed to py_bridge, in order
    kjust,      \* bookkeeping: the user input handled in the step just taken
    \* ---- the bridge: _handle_binding and the Entry Store ----
    bstore,     \* the Entry Store: the list in screenshots.json
    bh,         \* the bag of suspended invocations of _handle_binding
    bpending,   \* page._pending_new_name
    brec,       \* the inline recorder showing on the page, and who opened it
    bjust       \* bookkeeping: what the step just taken did

cvars == <<events, cpc, now1, now2, actions, actions2>>

rvars == <<ract, ri, rpc, rlog>>

tvars == <<store, fs, tcmd, tdata, ti, tpc, tupdated, tret, tjust>>

svars == <<slisten, sstart, sbox, soverlay, sscroll, sresult, sjust>>

kvars == <<kactive, kbar, krecording, klisten, kevents, ktimers, ksent, kjust>>

bvars == <<bstore, bh, bpending, brec, bjust>>

vars == <<cvars, rvars, tvars, svars, kvars, bvars>>

(***************************************************************************)
(* Bounds of the model.                                                    *)
(***************************************************************************)
MaxEvents == 2

\* longest action list replayed
MaxActions == 2

\* most entries in the Entry Store
MaxEntries == 2

\* timestamps an event may carry (ms); gaps of 40 (no wait), 41 and 81 (wait)
TimeStamps == {0, 40, 81}

\* values of the host's wall clock, int(time.time()*1000)
Clock == {20, 200}

\* the components that a specification does not run stay here
CompileOff ==
    /\ events = << >>
    /\ cpc = "off"
    /\ now1 = 0
    /\ now2 = 0
    /\ actions = << >>
    /\ actions2 = << >>

ReplayOff ==
    /\ ract = << >>
    /\ ri = 0
    /\ rpc = "off"
    /\ rlog = << >>

\* nothing happened to an artifact file in the step just taken
NoWrite ==
    [kind |-> "none", path |-> << >>, prev |-> "absent", new |-> "absent",
     changed |-> FALSE, wrote |-> FALSE, asked |-> FALSE]

TakeOff ==
    /\ store = << >>
    /\ fs = << >>
    /\ tcmd = "off"
    /\ tdata = << >>
    /\ ti = 0
    /\ tpc = "off"
    /\ tupdated = << >>
    /\ tret = [status |-> "none"]
    /\ tjust = NoWrite

\* no event was handled in the step just taken
NoEvent == [kind |-> "none"]

\* `box` before the first mousedown
NoBox == [made |-> FALSE, width |-> 0, height |-> 0]

SelectOff ==
    /\ slisten = {}
    /\ sstart = <<0, 0>>
    /\ sbox = NoBox
    /\ soverlay = FALSE
    /\ sscroll = <<0, 0>>
    /\ sresult = [kind |-> "off"]
    /\ sjust = NoEvent

\* no user input was handled in the step just taken
NoInput == [kind |-> "none"]

RecorderOff ==
    /\ kactive = FALSE
    /\ kbar = FALSE
    /\ krecording = FALSE
    /\ klisten = {}
    /\ kevents = << >>
    /\ ktimers = 0
    /\ ksent = << >>
    /\ kjust = NoInput

\* no invocation of _handle_binding took a step
NoStep == [kind |-> "none"]

\* no recorder is showing
NoRecorder == [by |-> "none"]

BridgeOff ==
    /\ bstore = << >>
    /\ bh = << >>
    /\ bpending = << >>
    /\ brec = NoRecorder
    /\ bjust = NoStep

(***************************************************************************)
(* Action compiler, src/Scale4_screenshot.py:713-743                       *)
(***************************************************************************)

\* the raw event types: those the inline recorder produces ("click", "scroll",
\* "mousedown", "mouseup", "keyboard") and the other types of the RawEvent enum
EventTypes ==
    {"click", "scroll", "mousedown", "mouseup", "keyboard",
     "mousemove", "wheel", "keydown"}

PointerTypes == {"click", "scroll", "mousedown", "mouseup", "mousemove"}

\* the fields an event of a type carries, besides the type and its timestamp
Payload(typ) ==
    IF typ \in PointerTypes THEN [x |-> 3, y |-> 4]
    ELSE IF typ \in {"keyboard", "keydown"} THEN [key |-> "a"]
    ELSE [deltaX |-> 0, deltaY |-> 100, selector |-> "div#a"]

\* a raw event; hasT = FALSE is an event dict with no "t" key
RawEvents ==
    { [type |-> ty, hasT |-> TRUE, t |-> ts, data |-> Payload(ty)] :
          ty \in EventTypes, ts \in TimeStamps }
    \cup
    { [type |-> ty, hasT |-> FALSE, t |-> 0, data |-> Payload(ty)] :
          ty \in EventTypes }

RECURSIVE SeqsUpTo(_, _)
SeqsUpTo(S, n) ==
    IF n = 0 THEN { <<>> }
    ELSE LET shorter == SeqsUpTo(S, n - 1)
         IN  shorter \cup { Append(s, e) : s \in { q \in shorter : Len(q) = n - 1 }, e \in S }

\* ev.get("t", default)
GetT(ev, default) == IF ev.hasT THEN ev.t ELSE default

\* key=lambda e: e.get("t", 0)
SortKey(ev) == GetT(ev, 0)

\* s is sorted by key; ev goes after every element whose key is <= its own
RECURSIVE InsertByKey(_, _)
InsertByKey(s, ev) ==
    IF s = <<>> THEN <<ev>>
    ELSE IF SortKey(ev) < SortKey(s[Len(s)])
         THEN Append(InsertByKey(SubSeq(s, 1, Len(s) - 1), ev), s[Len(s)])
         ELSE Append(s, ev)

\* a faulty variant of sorted(): the list is processed in arrival order
UnsortedEvents(evs) == evs

\* sorted(events, key=...): Python's sort is stable
RECURSIVE SortedEvents(_)
SortedEvents(evs) ==
    IF evs = <<>> THEN <<>>
    ELSE InsertByKey(SortedEvents(SubSeq(evs, 1, Len(evs) - 1)), evs[Len(evs)])

\* the Action the if/elif chain appends for one event (none for the other types).
\* src and at are bookkeeping, not fields of the program's dict: the position of
\* the source event in the list the loop runs over, and its e.get("t", 0)
MapEvent(ev, i) ==
    IF ev.type = "click"
        THEN << [type |-> "click", x |-> ev.data.x, y |-> ev.data.y, src |-> i,
             at |-> SortKey(ev)] >>
    ELSE IF ev.type = "scroll"
        THEN << [type |-> "scrollTo", x |-> ev.data.x, y |-> ev.data.y, src |-> i,
             at |-> SortKey(ev)] >>
    ELSE IF ev.type = "mousedown"
        THEN << [type |-> "mousedown", x |-> ev.data.x, y |-> ev.data.y, src |-> i,
             at |-> SortKey(ev)] >>
    ELSE IF ev.type = "mouseup"
        THEN << [type |-> "mouseup", x |-> ev.data.x, y |-> ev.data.y, src |-> i,
             at |-> SortKey(ev)] >>
    ELSE IF ev.type = "keyboard"
        THEN << [type |-> "keyboard", key |-> ev.data.key, src |-> i,
             at |-> SortKey(ev)] >>
    ELSE << >>

WaitThreshold == 40

\* the wait appended before an event's Action when delta > 40
WaitFor(delta, i) ==
    IF delta > WaitThreshold
        THEN << [type |-> "wait", ms |-> delta, src |-> i] >>
        ELSE << >>

\* the for loop over events_sorted from position i on, last_t as left by i-1
RECURSIVE CompileFrom(_, _, _)
CompileFrom(evs, i, last_t) ==
    IF i > Len(evs) THEN << >>
    ELSE LET t     == GetT(evs[i], last_t)
             delta == t - last_t
         IN  WaitFor(delta, i) \o MapEvent(evs[i], i) \o CompileFrom(evs, i + 1, t)

\* convert_recorded_events_to_actions(events), the wall clock reading `clock`
ConvertRecordedEventsToActions(evs, clock) ==
    IF evs = <<>> THEN << >>
    ELSE LET events_sorted == SortedEvents(evs)
         IN  CompileFrom(events_sorted, 1, GetT(events_sorted[1], clock))

InitCompile ==
    /\ events \in SeqsUpTo(RawEvents, MaxEvents)
    /\ cpc = "idle"
    /\ now1 = 0
    /\ now2 = 0
    /\ actions = << >>
    /\ actions2 = << >>
    /\ ReplayOff
    /\ TakeOff
    /\ SelectOff
    /\ RecorderOff
    /\ BridgeOff

\* the first call on the list
Compile ==
    /\ cpc = "idle"
    /\ \E clock \in Clock :
          /\ now1' = clock
          /\ actions' = ConvertRecordedEventsToActions(events, clock)
    /\ cpc' = "once"
    /\ UNCHANGED <<events, now2, actions2>>
    /\ UNCHANGED <<rvars, tvars, svars, kvars, bvars>>

\* a second call on the identical list, at another reading of the clock
CompileAgain ==
    /\ cpc = "once"
    /\ \E clock \in Clock :
          /\ now2' = clock
          /\ actions2' = ConvertRecordedEventsToActions(events, clock)
    /\ cpc' = "twice"
    /\ UNCHANGED <<events, now1, actions>>
    /\ UNCHANGED <<rvars, tvars, svars, kvars, bvars>>

NextCompile == Compile \/ CompileAgain

SpecCompile == InitCompile /\ [][NextCompile]_vars

(***************************************************************************)
(* Claims about the action compiler (checked under SpecCompile)            *)
(***************************************************************************)

NonWaitPositions(out) == { p \in 1..Len(out) : out[p].type # "wait" }
WaitPositions(out)    == { p \in 1..Len(out) : out[p].type = "wait" }

\* C1: compiling the identical raw event list twice yields identical Action
\* lists, whatever the wall clock reads at either call.
C1_Deterministic ==
    cpc = "twice" => actions = actions2

AllCarryT(evs) == \A i \in 1..Len(evs) : evs[i].hasT

\* the gap of the i-th event of a timestamp-sorted list to its predecessor
GapBefore(s, i) == IF i = 1 THEN 0 ELSE s[i].t - s[i - 1].t

\* C2: for every event (in timestamp order), a wait of exactly the gap to the
\* previous event stands immediately before that event's Action if and only if
\* the gap exceeds 40 ms; no other wait is in the output, none for the first event.
C2_WaitIffGapExceeds40 ==
    (cpc # "idle" /\ AllCarryT(events)) =>
        LET s == SortedEvents(events)
        IN  /\ \A i \in 1..Len(s) :
                  (i > 1 /\ GapBefore(s, i) > 40)
                  <=> \E p \in WaitPositions(actions) :
                         /\ actions[p].src = i
                         /\ actions[p].ms = GapBefore(s, i)
                         /\ p < Len(actions)
                         /\ actions[p + 1].type # "wait"
                         /\ actions[p + 1].src = i
            /\ \A p \in WaitPositions(actions) :
                  actions[p].src > 1 /\ GapBefore(s, actions[p].src) > 40

\* the Action type the specification maps each RawEvent type to
ClaimedActionType(typ) ==
    IF typ = "scroll" THEN "scrollTo"
    ELSE IF typ = "keydown" THEN "keyboard"
    ELSE typ

RawEventEnum ==
    {"mousedown", "mouseup", "mousemove", "click", "keydown", "wheel", "scroll"}

\* the fields of an Action other than its type and the bookkeeping
ActionFields(a) == [f \in (DOMAIN a) \ {"type", "src", "at"} |-> a[f]]

\* C3: every raw event of a type of the RawEvent enum yields exactly one
\* non-wait Action, of the mapped type, carrying the event's fields unchanged;
\* no event is dropped.
C3_EveryEventMapped ==
    cpc # "idle" =>
        LET s == SortedEvents(events)
        IN  \A i \in 1..Len(s) :
              s[i].type \in RawEventEnum =>
                 /\ Cardinality({ p \in NonWaitPositions(actions) : actions[p].src = i }) = 1
                 /\ \A p \in NonWaitPositions(actions) :
                       actions[p].src = i =>
                          /\ actions[p].type = ClaimedActionType(s[i].type)
                          /\ ActionFields(actions[p]) = s[i].data

\* C4: the non-wait Actions stand in non-decreasing order of their source
\* events' timestamps, whatever the arrival order, and every wait has ms >= 0.
C4_TimeOrdered ==
    cpc # "idle" =>
        /\ \A p, q \in NonWaitPositions(actions) :
              p < q => actions[p].at <= actions[q].at
        /\ \A p \in WaitPositions(actions) : actions[p].ms >= 0

\* C4 witness: a list that arrived out of timestamp order was compiled into two
\* Actions with a wait between them
C4_Witness ==
    /\ cpc = "once"
    /\ \E i, j \in 1..Len(events) : i < j /\ SortKey(events[i]) > SortKey(events[j])
    /\ Cardinality(NonWaitPositions(actions)) >= 2
    /\ WaitPositions(actions) # {}

(***************************************************************************)
(* Replay engine, src/Scale4_screenshot.py:746-808                         *)
(* A step of the model runs the coroutine from one await to the next; a    *)
(* call on the page either returns (ok) or raises.                         *)
(***************************************************************************)

\* the types replay_actions_on_page has a branch for
KnownTypes == {"wait", "click", "scrollTo", "mousedown", "mouseup", "keyboard"}

\* asyncio.sleep(0.25) after scrollTo, asyncio.sleep(0.05) for an unknown type
SettleMs == 250
UnknownDelayMs == 50

\* the Actions replayed. bad = TRUE is a payload that is not of the type the
\* schema gives it: ms or x/y that int() or the division by 1000.0 rejects, a
\* key of None
ReplayAlphabet ==
    { [type |-> "wait", ms |-> 100, bad |-> b] : b \in BOOLEAN }
    \cup { [type |-> ty, x |-> 3, y |-> 4, bad |-> b] :
              ty \in {"click", "scrollTo", "mousedown", "mouseup"}, b \in BOOLEAN }
    \cup { [type |-> "keyboard", key |-> "a", bad |-> b] : b \in BOOLEAN }
    \cup { [type |-> "wheel", deltaX |-> 0, deltaY |-> 100, selector |-> "div#a",
            bad |-> FALSE],
           [type |-> "mousemove", x |-> 3, y |-> 4, bad |-> FALSE],
           [type |-> "zoom", bad |-> FALSE] }

\* one entry of rlog: the call `op` made while the loop was at position i
Effect(i, op, ms, ok) == [i |-> i, op |-> op, ms |-> ms, ok |-> ok]

\* act, the loop variable
Act == ract[ri]

AtAction(typ) == rpc = "loop" /\ ri <= Len(ract) /\ Act.type = typ

\* the end of one iteration of the for loop
NextIteration ==
    /\ ri' = ri + 1
    /\ rpc' = "loop"

Raise ==
    /\ rpc' = "raised"
    /\ UNCHANGED ri

InitReplay ==
    /\ ract \in SeqsUpTo(ReplayAlphabet, MaxActions)
    /\ ri = 0
    /\ rpc = "call"
    /\ rlog = << >>
    /\ CompileOff
    /\ TakeOff
    /\ SelectOff
    /\ RecorderOff
    /\ BridgeOff

\* if not actions: return;  otherwise dpr = await page.evaluate(...) is issued
ReplayCall ==
    /\ rpc = "call"
    /\ rpc' = IF ract = << >> THEN "returned" ELSE "dpr"
    /\ UNCHANGED <<ract, ri, rlog>>

\* dpr = await page.evaluate("window.devicePixelRatio")
ReplayDpr ==
    /\ rpc = "dpr"
    /\ \E ok \in BOOLEAN :
          /\ rlog' = Append(rlog, Effect(0, "evaluate_dpr", 0, ok))
          /\ IF ok THEN ri' = 1 /\ rpc' = "loop" ELSE Raise
    /\ UNCHANGED ract

\* the for loop is exhausted
ReplayReturn ==
    /\ rpc = "loop"
    /\ ri > Len(ract)
    /\ rpc' = "returned"
    /\ UNCHANGED <<ract, ri, rlog>>

\* a faulty variant of ReplayWait: the sleep is started but not awaited
ReplayWaitNotAwaited ==
    /\ AtAction("wait")
    /\ IF Act.bad
          THEN Raise /\ UNCHANGED rlog
          ELSE /\ rlog' = Append(rlog, Effect(ri, "sleep_begin", Act.ms, TRUE))
               /\ NextIteration
    /\ UNCHANGED ract

\* typ == "wait": await asyncio.sleep(act.get("ms", 0) / 1000.0)
ReplayWait ==
    /\ AtAction("wait")
    /\ IF Act.bad
          THEN Raise /\ UNCHANGED rlog
          ELSE /\ rlog' = Append(rlog, Effect(ri, "sleep_begin", Act.ms, TRUE))
               /\ rpc' = "sleeping"
               /\ UNCHANGED ri
    /\ UNCHANGED ract

\* an asyncio.sleep of the current iteration is over
ReplaySleepEnd ==
    /\ rpc = "sleeping"
    /\ rlog' = Append(rlog, Effect(ri, "sleep_end", rlog[Len(rlog)].ms, TRUE))
    /\ NextIteration
    /\ UNCHANGED ract

\* typ == "click": x = int(...); y = int(...); try: await page.mouse.click(x, y)
ReplayClick ==
    /\ AtAction("click")
    /\ IF Act.bad
          THEN Raise /\ UNCHANGED rlog
          ELSE \E ok \in BOOLEAN :
                  /\ rlog' = Append(rlog, Effect(ri, "mouse.click", 0, ok))
                  /\ IF ok THEN NextIteration
                           ELSE rpc' = "click_fallback" /\ UNCHANGED ri
    /\ UNCHANGED ract

\* except Exception: await page.evaluate(<dispatch a click at the point>, x, y),
\* which is inside no try
ReplayClickFallback ==
    /\ rpc = "click_fallback"
    /\ \E ok \in BOOLEAN :
          /\ rlog' = Append(rlog, Effect(ri, "evaluate_click", 0, ok))
          /\ IF ok THEN NextIteration ELSE Raise
    /\ UNCHANGED ract

\* typ == "scrollTo": try: await page.evaluate('window.scrollTo(x,y)')
\* except: pass;  then await asyncio.sleep(0.25)
ReplayScrollTo ==
    /\ AtAction("scrollTo")
    /\ IF Act.bad
          THEN Raise /\ UNCHANGED rlog
          ELSE \E ok \in BOOLEAN :
                  /\ rlog' = rlog \o << Effect(ri, "evaluate_scrollTo", 0, ok),
                                        Effect(ri, "sleep_begin", SettleMs, TRUE) >>
                  /\ rpc' = "sleeping"
                  /\ UNCHANGED ri
    /\ UNCHANGED ract

\* typ == "mousedown": try: await page.mouse.move(x, y) ... except: pass
ReplayMouseDown ==
    /\ AtAction("mousedown")
    /\ IF Act.bad
          THEN Raise /\ UNCHANGED rlog
          ELSE \E ok \in BOOLEAN :
                  /\ rlog' = Append(rlog, Effect(ri, "mouse.move", 0, ok))
                  /\ IF ok THEN rpc' = "mouse_down" /\ UNCHANGED ri
                           ELSE NextIteration
    /\ UNCHANGED ract

\* ... await page.mouse.down()  except: pass
ReplayMouseDownPress ==
    /\ rpc = "mouse_down"
    /\ \E ok \in BOOLEAN :
          rlog' = Append(rlog, Effect(ri, "mouse.down", 0, ok))
    /\ NextIteration
    /\ UNCHANGED ract

\* typ == "mouseup": try: await page.mouse.move(x, y) ... except: pass
ReplayMouseUp ==
    /\ AtAction("mouseup")
    /\ IF Act.bad
          THEN Raise /\ UNCHANGED rlog
          ELSE \E ok \in BOOLEAN :
                  /\ rlog' = Append(rlog, Effect(ri, "mouse.move", 0, ok))
                  /\ IF ok THEN rpc' = "mouse_up" /\ UNCHANGED ri
                           ELSE NextIteration
    /\ UNCHANGED ract

\* ... await page.mouse.up()  except: pass
ReplayMouseUpRelease ==
    /\ rpc = "mouse_up"
    /\ \E ok \in BOOLEAN :
          rlog' = Append(rlog, Effect(ri, "mouse.up", 0, ok))
    /\ NextIteration
    /\ UNCHANGED ract

\* the outcomes of a keyboard call with this key: a key of None always raises
KeyOutcomes(act) == IF act.bad THEN {FALSE} ELSE BOOLEAN

\* typ == "keyboard": try: await page.keyboard.press(key)
ReplayKeyboard ==
    /\ AtAction("keyboard")
    /\ \E ok \in KeyOutcomes(Act) :
          /\ rlog' = Append(rlog, Effect(ri, "keyboard.press", 0, ok))
          /\ IF ok THEN NextIteration
                   ELSE rpc' = "insert_text" /\ UNCHANGED ri
    /\ UNCHANGED ract

\* except Exception: try: await page.keyboard.insertText(key) except: pass
ReplayKeyboardInsert ==
    /\ rpc = "insert_text"
    /\ \E ok \in KeyOutcomes(Act) :
          rlog' = Append(rlog, Effect(ri, "keyboard.insertText", 0, ok))
    /\ NextIteration
    /\ UNCHANGED ract

\* a faulty variant of ReplayUnknown: an unknown type is rejected
ReplayUnknownRaises ==
    /\ rpc = "loop"
    /\ ri <= Len(ract)
    /\ Act.type \notin KnownTypes
    /\ Raise
    /\ UNCHANGED <<ract, rlog>>

\* else: await asyncio.sleep(0.05)   (any type with no branch, wheel included)
ReplayUnknown ==
    /\ rpc = "loop"
    /\ ri <= Len(ract)
    /\ Act.type \notin KnownTypes
    /\ rlog' = Append(rlog, Effect(ri, "sleep_begin", UnknownDelayMs, TRUE))
    /\ rpc' = "sleeping"
    /\ UNCHANGED <<ract, ri>>

NextReplay ==
    \/ (ReplayCall /\ UNCHANGED <<cvars, tvars, svars, kvars, bvars>>)
    \/ (ReplayDpr /\ UNCHANGED <<cvars, tvars, svars, kvars, bvars>>)
    \/ (ReplayReturn /\ UNCHANGED <<cvars, tvars, svars, kvars, bvars>>)
    \/ (ReplayWait /\ UNCHANGED <<cvars, tvars, svars, kvars, bvars>>)
    \/ (ReplaySleepEnd /\ UNCHANGED <<cvars, tvars, svars, kvars, bvars>>)
    \/ (ReplayClick /\ UNCHANGED <<cvars, tvars, svars, kvars, bvars>>)
    \/ (ReplayClickFallback /\ UNCHANGED <<cvars, tvars, svars, kvars, bvars>>)
    \/ (ReplayScrollTo /\ UNCHANGED <<cvars, tvars, svars, kvars, bvars>>)
    \/ (ReplayMouseDown /\ UNCHANGED <<cvars, tvars, svars, kvars, bvars>>)
    \/ (ReplayMouseDownPress /\ UNCHANGED <<cvars, tvars, svars, kvars, bvars>>)
    \/ (ReplayMouseUp /\ UNCHANGED <<cvars, tvars, svars, kvars, bvars>>)
    \/ (ReplayMouseUpRelease /\ UNCHANGED <<cvars, tvars, svars, kvars, bvars>>)
    \/ (ReplayKeyboard /\ UNCHANGED <<cvars, tvars, svars, kvars, bvars>>)
    \/ (ReplayKeyboardInsert /\ UNCHANGED <<cvars, tvars, svars, kvars, bvars>>)
    \/ (ReplayUnknown /\ UNCHANGED <<cvars, tvars, svars, kvars, bvars>>)

SpecReplay == InitReplay /\ [][NextReplay]_vars

(***************************************************************************)
(* Claims about the replay engine (checked under SpecReplay)               *)
(***************************************************************************)

\* the calls the branch of a type can make
OpsOf(typ) ==
    IF typ = "wait" THEN {"sleep_begin", "sleep_end"}
    ELSE IF typ = "click" THEN {"mouse.click", "evaluate_click"}
    ELSE IF typ = "scrollTo" THEN {"evaluate_scrollTo", "sleep_begin", "sleep_end"}
    ELSE IF typ = "mousedown" THEN {"mouse.move", "mouse.down"}
    ELSE IF typ = "mouseup" THEN {"mouse.move", "mouse.up"}
    ELSE IF typ = "keyboard" THEN {"keyboard.press", "keyboard.insertText"}
    ELSE {"sleep_begin", "sleep_end"}

LogPositions == 1..Len(rlog)

\* C5: the Actions take effect strictly in list order: effects are logged in
\* non-decreasing position order, each is an effect of the Action at that
\* position, none happens twice, nothing of a later Action has started while
\* the loop is at position ri, and a sleep that has begun ends before any
\* other effect starts.
C5_StrictlyInOrder ==
    /\ \A p, q \in LogPositions :
          p < q => /\ rlog[p].i <= rlog[q].i
                   /\ ~(rlog[p].i = rlog[q].i /\ rlog[p].op = rlog[q].op)
    /\ \A p \in LogPositions :
          /\ rlog[p].i <= ri
          /\ rlog[p].i <= Len(ract)
          /\ rlog[p].i >= 1 => rlog[p].op \in OpsOf(ract[rlog[p].i].type)
          /\ rlog[p].op = "sleep_begin" =>
                IF p < Len(rlog)
                   THEN rlog[p + 1] = Effect(rlog[p].i, "sleep_end", rlog[p].ms, TRUE)
                   ELSE rpc = "sleeping" /\ ri = rlog[p].i

\* C5 witness: a wait ran to its end and then the Action after it took effect
C5_Witness ==
    /\ rpc = "returned"
    /\ Len(ract) = 2
    /\ ract[1].type = "wait"
    /\ \E p \in LogPositions :
          /\ rlog[p] = Effect(1, "sleep_end", 100, TRUE)
          /\ p < Len(rlog)
          /\ rlog[p + 1].i = 2

\* C6: no failure of a single Action ends the replay: replay_actions_on_page
\* never raises while it is at an Action of the list.
C6_FailuresCaught ==
    ~(rpc = "raised" /\ ri >= 1)

\* C7: an Action of a type with no branch is skipped with the fixed 50 ms
\* delay and no call on the page, never raises, and the loop goes on to the
\* Action after it.
C7_UnknownSkipped ==
    \A i \in 1..Len(ract) :
       ract[i].type \notin KnownTypes =>
          /\ \A p \in LogPositions :
                rlog[p].i = i =>
                   /\ rlog[p].op \in {"sleep_begin", "sleep_end"}
                   /\ rlog[p].ms = UnknownDelayMs
                   /\ rlog[p] = Effect(i, "sleep_end", UnknownDelayMs, TRUE) =>
                         IF p < Len(rlog) THEN rlog[p + 1].i = i + 1
                                          ELSE ri = i + 1
          /\ ~(rpc = "raised" /\ ri = i)
          /\ ri > i => \E p \in LogPositions :
                          rlog[p] = Effect(i, "sleep_end", UnknownDelayMs, TRUE)

\* C7 witness: an unknown Action was skipped and the Action after it executed
C7_Witness ==
    /\ rpc = "returned"
    /\ Len(ract) = 2
    /\ ract[1].type = "zoom"
    /\ ract[2].type = "click"
    /\ \E p \in LogPositions : rlog[p] = Effect(2, "mouse.click", 0, TRUE)

\* the scroll attempts of the three-tier wheel fallback
ScrollOps == {"element_wheel_scrollBy", "mouse.wheel", "evaluate_scrollBy"}

\* C8: a wheel Action that has been replayed caused at least one scroll attempt
\* (element-scoped wheel, else viewport wheel, else plain scroll-by).
C8_WheelScrolls ==
    \A i \in 1..Len(ract) :
       (ract[i].type = "wheel" /\ ri > i) =>
          \E p \in LogPositions : rlog[p].i = i /\ rlog[p].op \in ScrollOps

(***************************************************************************)
(* take_screenshot_and_compare (src/Scale4_screenshot.py:92-137) and the   *)
(* take_index / take_all commands of _handle_binding (lines 961-1027).     *)
(* A step runs the handler from one await to the next. The sleeps, the     *)
(* wait_for_load_state and the overlay re-injection (whose failures are    *)
(* swallowed) and push_entries_to_ui change nothing of the state below and *)
(* are part of the step they follow.                                       *)
(***************************************************************************)

\* what a screenshot of the page can show
Images == {"img1", "img2"}

NoFile == "absent"

\* png_name values, as their dot-separated parts
Names == { <<"a">>, <<"b">> }

\* SCREENSHOT_DIR / f"{entry.get('png_name')}.png", as the parts of the file name
ArtifactPath(name) == name \o <<"png">>

\* path.with_suffix(".tmp.png"): the last suffix is replaced
TmpPath(path) == SubSeq(path, 1, Len(path) - 1) \o <<"tmp", "png">>

Paths ==
    { ArtifactPath(n) : n \in Names } \cup { TmpPath(ArtifactPath(n)) : n \in Names }

\* entry.get("clip"): present = FALSE is a missing (or empty) clip
Clips ==
    { [present |-> FALSE, x |-> 0, y |-> 0, width |-> 0, height |-> 0],
      [present |-> TRUE, x |-> 0, y |-> 0, width |-> 0, height |-> 0],
      [present |-> TRUE, x |-> 0, y |-> 0, width |-> 200, height |-> 100],
      [present |-> TRUE, x |-> 0, y |-> 0, width |-> -200, height |-> 100] }

Entries == { [png_name |-> n, clip |-> c] : n \in Names, c \in Clips }

\* file_sha256: "" for a missing file, else the digest of the content
\* (SHA-256 taken as collision-free)
NoHash == << >>
FileSha256(files, path) ==
    IF files[path] = NoFile THEN NoHash ELSE <<"sha256", files[path]>>

\* a faulty variant of HashesEqual: the new capture never counts as equal
HashesNeverEqual(prev_hash, new_hash) == FALSE

\* a faulty variant of HashesEqual: any prior artifact counts as equal
HashesEqualIfPrior(prev_hash, new_hash) == prev_hash # NoHash

\* if prev_hash and prev_hash == new_hash
HashesEqual(prev_hash, new_hash) ==
    prev_hash # NoHash /\ prev_hash = new_hash

\* if not clip or clip.get("width", 0) == 0 or clip.get("height", 0) == 0:
\* full page;  else: the clip is used
ClipUsed(clip) ==
    clip.present /\ clip.width # 0 /\ clip.height # 0

\* the entry being taken and its artifact path
Entry == tdata[ti]
EntryPath == ArtifactPath(Entry.png_name)

Init ==
    /\ store \in SeqsUpTo(Entries, MaxEntries)
    /\ fs \in { f \in [Paths -> Images \cup {NoFile}] :
                  \A n \in Names : f[TmpPath(ArtifactPath(n))] = NoFile }
    /\ tcmd = "none"
    /\ tdata = << >>
    /\ ti = 0
    /\ tpc = "idle"
    /\ tupdated = << >>
    /\ tret = [status |-> "none"]
    /\ tjust = NoWrite
    /\ CompileOff
    /\ ReplayOff
    /\ SelectOff
    /\ RecorderOff
    /\ BridgeOff

\* the handler returns (or raises): no command is running any more
Return(ret) ==
    /\ tret' = ret
    /\ tcmd' = "none"
    /\ tpc' = "idle"
    /\ tdata' = << >>
    /\ ti' = 0
    /\ tupdated' = << >>

\* an exception leaves _handle_binding: nothing in the handler catches it, so
\* the command ends there; `why` names the await that raised
HandlerRaises(why) == Return([status |-> "raised", cmd |-> tcmd, why |-> why])

\* no return value yet: a command has just been received
Pending == [status |-> "none"]

\* the entry is done: take_index returns ret; take_all appends to `updated`
\* when told to and goes on with the next entry, or returns after the last
EntryDone(append, ret) ==
    IF tcmd = "take_index"
       THEN Return(ret)
       ELSE LET upd == IF append THEN Append(tupdated, EntryPath) ELSE tupdated
            IN  IF ti < Len(tdata)
                   THEN /\ ti' = ti + 1
                        /\ tpc' = "goto"
                        /\ tupdated' = upd
                        /\ UNCHANGED <<tcmd, tdata, tret>>
                   ELSE Return([status |-> "take_all_done", updated |-> upd])

\* cmd == "take_index": idx = int(payload.get("index", -1)); data = load_json()
TakeIndex ==
    /\ tpc = "idle"
    /\ \E idx \in -1..MaxEntries :
          IF 0 <= idx /\ idx < Len(store)
             THEN /\ tcmd' = "take_index"
                  /\ tdata' = store
                  /\ ti' = idx + 1
                  /\ tpc' = "goto"
                  /\ tret' = Pending
                  /\ UNCHANGED tupdated
             ELSE Return([status |-> "invalid_index"])
    /\ tjust' = NoWrite
    /\ UNCHANGED <<store, fs>>

\* cmd == "take_all": data = load_json(); updated = []; for i, entry in ...
TakeAll ==
    /\ tpc = "idle"
    /\ IF store = << >>
          THEN Return([status |-> "take_all_done", updated |-> << >>])
          ELSE /\ tcmd' = "take_all"
               /\ tdata' = store
               /\ ti' = 1
               /\ tpc' = "goto"
               /\ tupdated' = << >>
               /\ tret' = Pending
    /\ tjust' = NoWrite
    /\ UNCHANGED <<store, fs>>

\* what page.goto can do: return, raise TimeoutError when the network never
\* goes idle within its timeout, or raise another error
GotoOutcomes == {"ok", "timeout", "error"}

\* await page.goto(entry.get("url", TARGET_URL), wait_until="networkidle"),
\* called outside any try; take_all then re-injects the overlay inside a try
TakeGoto ==
    /\ tpc = "goto"
    /\ \E outcome \in GotoOutcomes :
          IF outcome = "ok"
             THEN tpc' = "replay" /\ UNCHANGED <<tcmd, tdata, ti, tupdated, tret>>
             ELSE HandlerRaises(IF outcome = "timeout" THEN "goto_timeout"
                                                       ELSE "goto_error")
    /\ tjust' = NoWrite
    /\ UNCHANGED <<store, fs>>

\* await replay_actions_on_page(page, entry.get("actions", [])), which returns
\* or raises (SpecReplay)
TakeReplay ==
    /\ tpc = "replay"
    /\ \E ok \in BOOLEAN :
          IF ok THEN tpc' = "loadstate" /\ UNCHANGED <<tcmd, tdata, ti, tupdated, tret>>
                ELSE HandlerRaises("replay")
    /\ tjust' = NoWrite
    /\ UNCHANGED <<store, fs>>

\* try: await page.wait_for_load_state("networkidle", timeout=10000)
\* except Exception: pass; then the sleep: the flow goes on either way
TakeWaitLoadState ==
    /\ tpc = "loadstate"
    /\ \E expired \in BOOLEAN : tpc' = "settled"
    /\ tjust' = NoWrite
    /\ UNCHANGED <<tcmd, tdata, ti, tupdated, tret, store, fs>>

\* what a step whose page.screenshot raised did: nothing was written
ShotFailed(path, prev) ==
    [kind |-> "shot_failed", path |-> path, prev |-> prev, new |-> NoFile,
     changed |-> FALSE, wrote |-> FALSE, asked |-> FALSE]

\* the full-page branch: await page.screenshot(path=str(path), full_page=True,
\* scale="device") writes the artifact file itself
TakeFullPage ==
    /\ tpc = "settled"
    /\ ~ClipUsed(Entry.clip)
    /\ \E ok \in BOOLEAN, img \in Images :
          IF ok
             THEN /\ fs' = [fs EXCEPT ![EntryPath] = img]
                  /\ tjust' = [kind |-> "full_page", path |-> EntryPath,
                               prev |-> fs[EntryPath], new |-> img,
                               changed |-> TRUE, wrote |-> TRUE, asked |-> FALSE]
                  /\ EntryDone(TRUE, [status |-> "taken_full"])
             ELSE /\ HandlerRaises("screenshot")
                  /\ tjust' = ShotFailed(EntryPath, fs[EntryPath])
                  /\ UNCHANGED fs
    /\ UNCHANGED store

\* the clip branch: await page.evaluate("window.__hideOverlayTemporarily ...")
\* and the call of take_screenshot_and_compare up to its page.screenshot
\* (mkdir, the scrollTo whose failure is swallowed, the sleep)
TakeHideOverlay ==
    /\ tpc = "settled"
    /\ ClipUsed(Entry.clip)
    /\ \E ok \in BOOLEAN :
          IF ok THEN tpc' = "tsc_shot" /\ UNCHANGED <<tcmd, tdata, ti, tupdated, tret>>
                ELSE HandlerRaises("overlay")
    /\ tjust' = NoWrite
    /\ UNCHANGED <<store, fs>>

\* a faulty variant of TscScreenshot: the old artifact is unlinked before the
\* capture is attempted
TscScreenshotUnlinksFirst ==
    /\ tpc = "tsc_shot"
    /\ \E ok \in BOOLEAN, img \in Images :
          IF ok
             THEN /\ fs' = [fs EXCEPT ![TmpPath(EntryPath)] = img]
                  /\ tpc' = "tsc_compare"
                  /\ tjust' = NoWrite
                  /\ UNCHANGED <<tcmd, tdata, ti, tupdated, tret>>
             ELSE /\ HandlerRaises("screenshot")
                  /\ tjust' = ShotFailed(EntryPath, fs[EntryPath])
                  /\ fs' = [fs EXCEPT ![EntryPath] = NoFile]
    /\ UNCHANGED store

\* await page.screenshot(path=str(tmp_path), clip=clip_for_viewport, scale="device")
TscScreenshot ==
    /\ tpc = "tsc_shot"
    /\ \E ok \in BOOLEAN, img \in Images :
          IF ok
             THEN /\ fs' = [fs EXCEPT ![TmpPath(EntryPath)] = img]
                  /\ tpc' = "tsc_compare"
                  /\ tjust' = NoWrite
                  /\ UNCHANGED <<tcmd, tdata, ti, tupdated, tret>>
             ELSE /\ HandlerRaises("screenshot")
                  /\ tjust' = ShotFailed(EntryPath, fs[EntryPath])
                  /\ UNCHANGED fs
    /\ UNCHANGED store

\* a faulty variant of Resolve: a capture that differs from the prior artifact
\* stays staged and the artifact is left alone
ResolveLeavesPending(files, path) ==
    LET tmp_path  == TmpPath(path)
        prev_hash == FileSha256(files, path)
        new_hash  == FileSha256(files, tmp_path)
    IN  IF HashesEqual(prev_hash, new_hash)
           THEN [files   |-> [files EXCEPT ![tmp_path] = NoFile],
                 changed |-> FALSE]
           ELSE IF prev_hash # NoHash
                   THEN [files |-> files, changed |-> FALSE]
                   ELSE [files   |-> [files EXCEPT ![path] = files[tmp_path],
                                                   ![tmp_path] = NoFile],
                         changed |-> TRUE]

\* a faulty variant of Resolve: the staged file is not removed when equal
ResolveKeepsStaged(files, path) ==
    LET tmp_path  == TmpPath(path)
        prev_hash == FileSha256(files, path)
        new_hash  == FileSha256(files, tmp_path)
    IN  IF HashesEqual(prev_hash, new_hash)
           THEN [files |-> files, changed |-> FALSE]
           ELSE [files   |-> [files EXCEPT ![path] = files[tmp_path],
                                           ![tmp_path] = NoFile],
                 changed |-> TRUE]

\* a faulty variant of Resolve: the old artifact is unlinked but the staged
\* file is never renamed onto it
ResolveSkipsRename(files, path) ==
    LET tmp_path  == TmpPath(path)
        prev_hash == FileSha256(files, path)
        new_hash  == FileSha256(files, tmp_path)
    IN  IF HashesEqual(prev_hash, new_hash)
           THEN [files   |-> [files EXCEPT ![tmp_path] = NoFile],
                 changed |-> FALSE]
           ELSE [files   |-> [files EXCEPT ![path] = NoFile],
                 changed |-> TRUE]

\* a faulty variant of Resolve: with no prior artifact the capture is dropped
ResolveNeedsPrior(files, path) ==
    LET tmp_path  == TmpPath(path)
        prev_hash == FileSha256(files, path)
        new_hash  == FileSha256(files, tmp_path)
    IN  IF prev_hash = NoHash \/ prev_hash = new_hash
           THEN [files   |-> [files EXCEPT ![tmp_path] = NoFile],
                 changed |-> FALSE]
           ELSE [files   |-> [files EXCEPT ![path] = files[tmp_path],
                                           ![tmp_path] = NoFile],
                 changed |-> TRUE]

\* the files after lines 120-137 and the `changed` they return: the staged file
\* is removed when the hashes are equal, else it replaces the artifact
Resolve(files, path) ==
    LET tmp_path  == TmpPath(path)
        prev_hash == FileSha256(files, path)
        new_hash  == FileSha256(files, tmp_path)
    IN  IF HashesEqual(prev_hash, new_hash)
           THEN [files   |-> [files EXCEPT ![tmp_path] = NoFile],
                 changed |-> FALSE]
           ELSE [files   |-> [files EXCEPT ![path] = files[tmp_path],
                                           ![tmp_path] = NoFile],
                 changed |-> TRUE]

\* the tuple take_screenshot_and_compare returns: changed, new_hash, prev_hash
Returned(files, path) ==
    [changed   |-> Resolve(files, path).changed,
     new_hash  |-> FileSha256(files, TmpPath(path)),
     prev_hash |-> FileSha256(files, path)]

\* prev_hash, new_hash, the comparison and the unlink / rename (no await in
\* between), then the handler's use of `changed`
TscCompare ==
    /\ tpc = "tsc_compare"
    /\ LET r == Resolve(fs, EntryPath)
       IN  /\ fs' = r.files
           /\ tjust' = [kind |-> "compare", path |-> EntryPath,
                        prev |-> fs[EntryPath], new |-> fs[TmpPath(EntryPath)],
                        changed |-> r.changed, wrote |-> r.files[EntryPath] # fs[EntryPath]
                                                          \/ r.changed,
                        asked |-> FALSE, ret |-> Returned(fs, EntryPath)]
           /\ EntryDone(r.changed, [status |-> "taken", changed |-> r.changed])
    /\ UNCHANGED store

Next ==
    \/ (TakeIndex /\ UNCHANGED <<cvars, rvars, svars, kvars, bvars>>)
    \/ (TakeAll /\ UNCHANGED <<cvars, rvars, svars, kvars, bvars>>)
    \/ (TakeGoto /\ UNCHANGED <<cvars, rvars, svars, kvars, bvars>>)
    \/ (TakeReplay /\ UNCHANGED <<cvars, rvars, svars, kvars, bvars>>)
    \/ (TakeWaitLoadState /\ UNCHANGED <<cvars, rvars, svars, kvars, bvars>>)
    \/ (TakeFullPage /\ UNCHANGED <<cvars, rvars, svars, kvars, bvars>>)
    \/ (TakeHideOverlay /\ UNCHANGED <<cvars, rvars, svars, kvars, bvars>>)
    \/ (TscScreenshot /\ UNCHANGED <<cvars, rvars, svars, kvars, bvars>>)
    \/ (TscCompare /\ UNCHANGED <<cvars, rvars, svars, kvars, bvars>>)

Spec == Init /\ [][Next]_vars

(***************************************************************************)
(* Claims about the capture and compare pipeline (checked under Spec)      *)
(***************************************************************************)

\* C9: when the new capture is identical to the existing artifact,
\* take_screenshot_and_compare returns changed = False, the staged file is
\* gone, the artifact file is not written and keeps its content, and nobody
\* is asked anything.
C9_IdenticalLeavesArtifact ==
    (tjust.kind = "compare" /\ tjust.prev # NoFile /\ tjust.new = tjust.prev) =>
        /\ ~tjust.changed
        /\ ~tjust.wrote
        /\ ~tjust.asked
        /\ fs[tjust.path] = tjust.prev
        /\ fs[TmpPath(tjust.path)] = NoFile

\* C9 witness: take_index captured the image the artifact already held
C9_Witness ==
    /\ tjust.kind = "compare"
    /\ tjust.prev \in Images
    /\ tjust.new = tjust.prev
    /\ tret = [status |-> "taken", changed |-> FALSE]

\* C10: an existing artifact file is written only by a step that compared the
\* new capture with it and found it different.
C10_OverwriteOnlyWhenChanged ==
    (tjust.wrote /\ tjust.prev # NoFile) =>
        (tjust.kind = "compare" /\ tjust.new # tjust.prev)

\* the step just taken compared a capture that differs from the prior artifact
ComparedDifferent ==
    tjust.kind = "compare" /\ tjust.prev # NoFile /\ tjust.new # tjust.prev

\* C11 (as claimed): a capture that differs from the prior artifact replaces it
\* only after a decision was asked for.
C11_ReplacedOnlyAfterDecision ==
    (ComparedDifferent /\ tjust.wrote) => tjust.asked

\* C11 (amended): a capture that differs from the prior artifact replaces it in
\* the very step that compared them, with no pending state and no decision
\* asked for; no step of a take command asks for a decision.
C11_ReplacedWithoutDecision ==
    /\ ~tjust.asked
    /\ ComparedDifferent => (tjust.wrote /\ fs[tjust.path] # tjust.prev)

\* C11 witness: take_index replaced an artifact by a different capture
C11_Witness ==
    /\ ComparedDifferent
    /\ tjust.wrote
    /\ tret = [status |-> "taken", changed |-> TRUE]

\* C12 (as claimed): a capture that differs from the prior artifact is reported
\* as different together with a non-empty bounding box of the differing region.
C12_DifferentWithBoundingBox ==
    ComparedDifferent =>
        /\ tjust.ret.changed
        /\ "bbox" \in DOMAIN tjust.ret
        /\ tjust.ret.bbox # << >>

\* C12 (amended): a capture that differs from the prior artifact is reported as
\* different (changed = True) together with the two unequal hashes, and with
\* nothing else: no bounding box is computed.
C12_DifferentWithHashes ==
    ComparedDifferent =>
        /\ tjust.ret.changed
        /\ DOMAIN tjust.ret = {"changed", "new_hash", "prev_hash"}
        /\ tjust.ret.new_hash # tjust.ret.prev_hash
        /\ tjust.ret.prev_hash = <<"sha256", tjust.prev>>
        /\ tjust.ret.new_hash = <<"sha256", tjust.new>>

\* C12 witness: img2 was captured over an artifact holding img1
C12_Witness ==
    /\ ComparedDifferent
    /\ tjust.prev = "img1"
    /\ tjust.new = "img2"
    /\ tjust.ret.changed

\* C13: when a prior artifact exists and the hash of the new capture differs,
\* take_screenshot_and_compare returns changed = True and the artifact file
\* then holds exactly the new capture (the staged file became the artifact).
C13_DifferentOverwrites ==
    ComparedDifferent =>
        /\ tjust.changed
        /\ fs[tjust.path] = tjust.new
        /\ fs[TmpPath(tjust.path)] = NoFile

\* C13 witness: take_all replaced an artifact and lists it as updated
C13_Witness ==
    /\ ComparedDifferent
    /\ fs[tjust.path] = tjust.new
    /\ tret.status = "take_all_done"
    /\ tret.updated # << >>
    /\ tret.updated[Len(tret.updated)] = tjust.path

\* the state of the capture take_screenshot_and_compare is making
ArtifactState ==
    IF tpc = "tsc_compare" THEN "Captured"
    ELSE IF tjust.kind = "compare"
            THEN IF tjust.changed THEN "Replaced" ELSE "Discarded"
            ELSE "NotCaptured"

StagedDiffers ==
    /\ tpc = "tsc_compare"
    /\ fs[EntryPath] # NoFile
    /\ fs[TmpPath(EntryPath)] # fs[EntryPath]

StagedFiles == { p \in Paths : p \notin { ArtifactPath(n) : n \in Names } /\ fs[p] # NoFile }

C15_FirstCaptureAccepted ==
    (tjust.kind = "compare" /\ tjust.prev = NoFile) =>
        /\ tjust.changed
        /\ tjust.ret.changed
        /\ tjust.ret.prev_hash = NoHash
        /\ ~tjust.asked
        /\ fs[tjust.path] = tjust.new
        /\ tjust.new \in Images
        /\ fs[TmpPath(tjust.path)] = NoFile

\* C15 witness: take_index made the first capture of an entry
C15_Witness ==
    /\ tjust.kind = "compare"
    /\ tjust.prev = NoFile
    /\ fs[tjust.path] \in Images
    /\ tret = [status |-> "taken", changed |-> TRUE]

\* C16 (as claimed): a navigation, replay or screenshot failure in one entry of
\* take_all skips only that entry, so the batch never ends in the exception: it
\* completes with its "take_all_done" summary.
C16_BatchSurvivesEntryFailure ==
    ~( /\ tret.status = "raised"
       /\ tret.cmd = "take_all"
       /\ tret.why \in {"goto_timeout", "goto_error", "replay", "screenshot"} )

\* the step that is a failing page.screenshot, clipped or full-page
ScreenshotFails ==
    /\ \/ tpc = "tsc_shot"
       \/ tpc = "settled" /\ ~ClipUsed(Entry.clip)
    /\ tret'.status = "raised"

\* C17: when page.screenshot fails no artifact is written: the prior artifact
\* is left exactly as it was and no new file appears, on the clipped path and
\* on the full-page path alike.
C17_FailedShotWritesNothing ==
    [][ScreenshotFails => fs' = fs]_vars

\* C17 witness: a clipped screenshot failed over an existing artifact, which
\* is still there, and nothing is staged
C17_Witness ==
    /\ tjust.kind = "shot_failed"
    /\ tjust.prev \in Images
    /\ fs[tjust.path] = tjust.prev
    /\ fs[TmpPath(tjust.path)] = NoFile
    /\ tret.status = "raised"
    /\ tret.why = "screenshot"

\* C18 (as claimed): the expiry of a bounded wait for network idle, that of the
\* navigation included, is not fatal: the command does not end in the timeout.
C18_TimeoutNotFatal ==
    ~(tret.status = "raised" /\ tret.why = "goto_timeout")

\* C19 (as claimed): the clipped capture is entered only for a clip whose width
\* and height are both greater than 0.
C19_ClipOnlyWhenPositive ==
    tpc \in {"tsc_shot", "tsc_compare"} =>
        /\ Entry.clip.present
        /\ Entry.clip.width > 0
        /\ Entry.clip.height > 0

(***************************************************************************)
(* Region selector, window.__selectClip, src/Scale4_screenshot.py:487-576  *)
(* One step is one event handler run to completion.                        *)
(***************************************************************************)

\* largest clientX / clientY of a pointer event
MaxCoord == 2

\* <<ev.clientX, ev.clientY>>
Pointer == (0..MaxCoord) \X (0..MaxCoord)

\* values of window.scrollX and window.scrollY
ScrollOffsets == {0, 50}

\* the keys of the keydown events
Keys == {"Escape", "Enter"}

Abs(n) == IF n < 0 THEN 0 - n ELSE n

Min(a, b) == IF a < b THEN a ELSE b

Max(a, b) == IF a > b THEN a ELSE b

\* a faulty variant of Extent: the distance is not raised to 1
ExtentUnclamped(client, start) == Abs(client - start)

\* Math.max(1, Math.abs(ev.clientX - startX))
Extent(client, start) == Max(1, Abs(client - start))

\* the states of the promise besides a clip
Unresolved == [kind |-> "unresolved"]
NoSelection == [kind |-> "null"]

\* the object up(ev) resolves with (Math.round leaves integers as they are)
ClipOf(start, client, scroll) ==
    [kind   |-> "clip",
     x      |-> Min(start[1], client[1]) + scroll[1],
     y      |-> Min(start[2], client[2]) + scroll[2],
     width  |-> Extent(client[1], start[1]),
     height |-> Extent(client[2], start[2])]

\* resolve(value): a promise settles once, later calls change nothing
Resolve1(result, value) == IF result = Unresolved THEN value ELSE result

\* cleanup(): removes the mousemove and mouseup listeners (and the overlay)
Cleanup(listeners) == listeners \ {"mousemove", "mouseup"}

\* the promise executor: overlay appended, mousedown / mouseup / keydown
\* listeners attached, startX = startY = 0, box = null
InitSelect ==
    /\ slisten = {"mousedown", "mouseup", "keydown"}
    /\ sstart = <<0, 0>>
    /\ sbox = NoBox
    /\ soverlay = TRUE
    /\ sscroll \in ScrollOffsets \X ScrollOffsets
    /\ sresult = Unresolved
    /\ sjust = NoEvent
    /\ CompileOff
    /\ ReplayOff
    /\ TakeOff
    /\ RecorderOff
    /\ BridgeOff

\* function down(ev)
SelDown ==
    /\ "mousedown" \in slisten
    /\ \E ev \in Pointer :
          /\ sstart' = ev
          /\ sjust' = [kind |-> "down", client |-> ev]
    /\ sbox' = [made |-> TRUE, width |-> 0, height |-> 0]
    /\ slisten' = slisten \cup {"mousemove"}
    /\ UNCHANGED <<soverlay, sscroll, sresult>>

\* function move(ev)
SelMove ==
    /\ "mousemove" \in slisten
    /\ \E ev \in Pointer :
          /\ sbox' = [made |-> TRUE, width |-> Abs(ev[1] - sstart[1]),
                      height |-> Abs(ev[2] - sstart[2])]
          /\ sjust' = [kind |-> "move", client |-> ev]
    /\ UNCHANGED <<slisten, sstart, soverlay, sscroll, sresult>>

\* function up(ev)
SelUp ==
    /\ "mouseup" \in slisten
    /\ \E ev \in Pointer :
          /\ sresult' = Resolve1(sresult, ClipOf(sstart, ev, sscroll))
          /\ sjust' = [kind |-> "up", client |-> ev, start |-> sstart,
                       dragged |-> sbox.made, first |-> sresult = Unresolved]
    /\ slisten' = Cleanup(slisten)
    /\ soverlay' = FALSE
    /\ UNCHANGED <<sstart, sbox, sscroll>>

\* function onEsc(e)
SelKeyDown ==
    /\ "keydown" \in slisten
    /\ \E key \in Keys :
          /\ sjust' = [kind |-> "key", key |-> key, first |-> sresult = Unresolved]
          /\ IF key = "Escape"
                THEN /\ slisten' = Cleanup(slisten \ {"keydown"})
                     /\ soverlay' = FALSE
                     /\ sresult' = Resolve1(sresult, NoSelection)
                ELSE UNCHANGED <<slisten, soverlay, sresult>>
    /\ UNCHANGED <<sstart, sbox, sscroll>>

NextSelect ==
    \/ (SelDown /\ UNCHANGED <<cvars, rvars, tvars, kvars, bvars>>)
    \/ (SelMove /\ UNCHANGED <<cvars, rvars, tvars, kvars, bvars>>)
    \/ (SelUp /\ UNCHANGED <<cvars, rvars, tvars, kvars, bvars>>)
    \/ (SelKeyDown /\ UNCHANGED <<cvars, rvars, tvars, kvars, bvars>>)

SpecSelect == InitSelect /\ [][NextSelect]_vars

\* the step just taken was the pointer-up of a drag that ends where it began,
\* and it settled the selection
ZeroAreaDrag ==
    /\ sjust.kind = "up"
    /\ sjust.first
    /\ sjust.dragged
    /\ sjust.client = sjust.start

\* C20 (as claimed): a zero-area drag resolves to "no selection", never to a
\* Clip.
C20_ZeroAreaIsNoSelection ==
    ZeroAreaDrag => sresult = NoSelection

\* C20 (amended): a zero-area drag resolves to a Clip of width 1 and height 1
\* at the pointer's document position, never to "no selection" and never to a
\* Clip of width 0 or height 0.
C20_ZeroAreaIsOneByOne ==
    /\ ZeroAreaDrag =>
          sresult = [kind |-> "clip",
                     x |-> sjust.start[1] + sscroll[1],
                     y |-> sjust.start[2] + sscroll[2],
                     width |-> 1, height |-> 1]
    /\ sresult.kind = "clip" => (sresult.width >= 1 /\ sresult.height >= 1)

\* C20 witness: pointer-down and pointer-up at (1, 2) on a page scrolled by 50
C20_Witness ==
    /\ ZeroAreaDrag
    /\ sjust.start = <<1, 2>>
    /\ sscroll = <<50, 50>>
    /\ sresult = [kind |-> "clip", x |-> 51, y |-> 52, width |-> 1, height |-> 1]

(***************************************************************************)
(* Inline recorder, window.__showInlineRecorder,                           *)
(* src/Scale4_screenshot.py:406-486.  One invocation; one step is one      *)
(* event handler (or timeout callback) run to completion.                  *)
(***************************************************************************)

\* most Stop clicks that take effect in one run of the model
MaxStops == 2

\* the listeners startBtn.onclick attaches, by event name
CaptureListeners == {"click", "scroll", "mousedown", "mouseup", "keydown"}

\* the event a capture listener pushes
Recorded(listener) ==
    [type |-> IF listener = "keydown" THEN "keyboard" ELSE listener]

\* the promise executor: the bar is appended, events = [], recording = false
InitRecorder ==
    /\ kactive = TRUE
    /\ kbar = TRUE
    /\ krecording = FALSE
    /\ klisten = {}
    /\ kevents = << >>
    /\ ktimers = 0
    /\ ksent = << >>
    /\ kjust = NoInput
    /\ CompileOff
    /\ ReplayOff
    /\ TakeOff
    /\ SelectOff
    /\ BridgeOff

\* startBtn.onclick
StartOnClick ==
    IF krecording
       THEN UNCHANGED <<krecording, klisten>>
       ELSE /\ krecording' = TRUE
            /\ klisten' = klisten \cup CaptureListeners

\* a faulty variant of StopOnClick: the capture listeners are not removed
StopKeepsListeners ==
    IF ~krecording
       THEN UNCHANGED <<krecording, klisten, ktimers>>
       ELSE /\ krecording' = FALSE
            /\ klisten' = klisten
            /\ ktimers' = ktimers + 1

\* stopBtn.onclick: the listeners are removed at once, the rest after 120 ms
StopOnClick ==
    IF ~krecording
       THEN UNCHANGED <<krecording, klisten, ktimers>>
       ELSE /\ krecording' = FALSE
            /\ klisten' = klisten \ CaptureListeners
            /\ ktimers' = ktimers + 1

\* the keydown of a shortcut reaches keyHandler (capture) before the shortcut
\* listener
KeyRecorded ==
    IF "keydown" \in klisten
       THEN kevents' = Append(kevents, Recorded("keydown"))
       ELSE UNCHANGED kevents

EventsNotFull == "keydown" \in klisten => Len(kevents) < MaxEvents

StopsLeft == krecording => Len(ksent) + ktimers < MaxStops

\* the user clicks Start on the bar (the click itself is ignored by the
\* capture listeners: recorderBar.contains(e.target))
RecStartClick ==
    /\ kbar
    /\ StartOnClick
    /\ kjust' = [kind |-> "start", was |-> krecording]
    /\ UNCHANGED <<kactive, kbar, kevents, ktimers, ksent>>

\* the user clicks Stop on the bar
RecStopClick ==
    /\ kbar
    /\ StopsLeft
    /\ StopOnClick
    /\ kjust' = [kind |-> "stop", was |-> krecording]
    /\ UNCHANGED <<kactive, kbar, kevents, ksent>>

\* Ctrl+Shift+S: the shortcut listener calls startBtn.click(); the listener is
\* never removed and the button keeps its handler after the bar is removed
RecShortcutStart ==
    /\ EventsNotFull
    /\ KeyRecorded
    /\ StartOnClick
    /\ kjust' = [kind |-> "start", was |-> krecording]
    /\ UNCHANGED <<kactive, kbar, ktimers, ksent>>

\* Ctrl+Shift+E: the shortcut listener calls stopBtn.click()
RecShortcutStop ==
    /\ EventsNotFull
    /\ StopsLeft
    /\ KeyRecorded
    /\ StopOnClick
    /\ kjust' = [kind |-> "stop", was |-> krecording]
    /\ UNCHANGED <<kactive, kbar, ksent>>

\* the user acts on the page: clickHandler, scrollHandler (which drops a
\* scroll that did not move or came within 80 ms), mouseDownHandler,
\* mouseUpHandler, keyHandler; nothing runs when the listener is not attached
RecPageInput ==
    /\ \E listener \in CaptureListeners, kept \in BOOLEAN :
          /\ listener # "scroll" => kept
          /\ IF listener \in klisten /\ kept
                THEN /\ Len(kevents) < MaxEvents
                     /\ kevents' = Append(kevents, Recorded(listener))
                ELSE UNCHANGED kevents
          /\ kjust' = [kind |-> "input", was |-> krecording]
    /\ UNCHANGED <<kactive, kbar, krecording, klisten, ktimers, ksent>>

\* the setTimeout callback of stopBtn.onclick
RecTimeout ==
    /\ ktimers > 0
    /\ ktimers' = ktimers - 1
    /\ kbar' = FALSE
    /\ kactive' = FALSE
    /\ ksent' = Append(ksent, kevents)
    /\ kjust' = [kind |-> "timeout", was |-> krecording]
    /\ UNCHANGED <<krecording, klisten, kevents>>

NextRecorder ==
    \/ (RecStartClick /\ UNCHANGED <<cvars, rvars, tvars, svars, bvars>>)
    \/ (RecStopClick /\ UNCHANGED <<cvars, rvars, tvars, svars, bvars>>)
    \/ (RecShortcutStart /\ UNCHANGED <<cvars, rvars, tvars, svars, bvars>>)
    \/ (RecShortcutStop /\ UNCHANGED <<cvars, rvars, tvars, svars, bvars>>)
    \/ (RecPageInput /\ UNCHANGED <<cvars, rvars, tvars, svars, bvars>>)
    \/ (RecTimeout /\ UNCHANGED <<cvars, rvars, tvars, svars, bvars>>)

SpecRecorder == InitRecorder /\ [][NextRecorder]_vars

C31_AtMostOneRecordFinished == Len(ksent) <= 1

(***************************************************************************)
(* The bridge: setup_bindings._handle_binding and the Entry Store,         *)
(* src/Scale4_screenshot.py:816-1054.  The page calls py_bridge whenever   *)
(* its UI or its recorder says so, and each call runs _handle_binding as   *)
(* a task of its own: the invocations interleave at their awaits.  One     *)
(* step is the run of one invocation from one await to the next; awaits    *)
(* with nothing of the model between them are taken in one step.           *)
(***************************************************************************)

\* the name add_new is sent with (btnAdd.onclick trims it and refuses an
\* empty one)
NamesB == { <<"a">> }

\* payload.get("png_name") of a payload without one; page._pending_new_name
\* before any add_new
NoName == << >>

\* what the user types into the prompt of edit_index
PromptAnswers == { << >>, <<" ", "b", " ">> }

\* the event lists the recorder hands to record_finished
RecordedLists ==
    { << [type |-> "click", hasT |-> TRUE, t |-> 0, data |-> Payload("click")] >> }

\* what the user does while __selectClip waits: Escape, or a press and
\* release without moving
Gestures ==
    { [kind |-> "escape"],
      [kind |-> "drag", start |-> <<1, 1>>, end |-> <<1, 1>>] }

\* a faulty variant of SelectOutcome: Escape resolves to an empty clip object
SelectOutcomeEscapeGivesClip(gesture) ==
    IF gesture.kind = "escape"
       THEN [kind |-> "clip", x |-> 0, y |-> 0, width |-> 0, height |-> 0]
       ELSE ClipOf(gesture.start, gesture.end, <<0, 0>>)

\* the value __selectClip resolves to (onEsc, up), on an unscrolled page
SelectOutcome(gesture) ==
    IF gesture.kind = "escape"
       THEN NoSelection
       ELSE ClipOf(gesture.start, gesture.end, <<0, 0>>)

\* {"x": 0, "y": 0, "width": 0, "height": 0}
ZeroClip == [x |-> 0, y |-> 0, width |-> 0, height |-> 0]

\* the dict a clip object of the page arrives as
ClipDict(clip) ==
    [x |-> clip.x, y |-> clip.y, width |-> clip.width, height |-> clip.height]

\* isinstance(clip, dict)
IsDict(clip) == clip.kind = "clip"

\* the items of a bulk_add payload: dicts with or without png_name, clip and
\* actions
BulkItems ==
    { [png_name |-> <<"/">>, hasClip |-> FALSE, hasActions |-> FALSE],
      [png_name |-> NoName, hasClip |-> FALSE, hasActions |-> FALSE] }

\* the entry bulk_add makes of an item
BulkEntry(it) ==
    [png_name |-> it.png_name, clip |-> ZeroClip, actions |-> << >>]

\* index payloads: -1 (no index given) and the positions of a full store
IndexPayloads == (0 - 1)..(MaxEntries - 1)

\* 0 <= idx < len(data)
ValidIndex(idx, data) == 0 <= idx /\ idx < Len(data)

\* new_name.strip()
RECURSIVE Strip(_)
Strip(name) ==
    IF name = << >> THEN << >>
    ELSE IF name[1] = " " THEN Strip(Tail(name))
    ELSE IF name[Len(name)] = " " THEN Strip(SubSeq(name, 1, Len(name) - 1))
    ELSE name

\* the suspended invocations
Running == BagToSet(bh)

\* the model runs at most one add_new together with at most one other
\* command: nothing in the source limits the invocations in flight
Class(cmd) == IF cmd = "add_new" THEN "add" ELSE "other"

CanStart(cmd) == \A r \in Running : Class(r.cmd) # Class(cmd)

InitBridge ==
    /\ bstore \in { << >> } \cup
                  { << [png_name |-> <<"a">>, clip |-> ZeroClip,
                        actions |-> ConvertRecordedEventsToActions(evs, clock)] >> :
                    evs \in RecordedLists, clock \in Clock }
    /\ bh = EmptyBag
    /\ bpending = NoName
    /\ brec = NoRecorder
    /\ bjust = NoStep
    /\ CompileOff
    /\ ReplayOff
    /\ TakeOff
    /\ SelectOff
    /\ RecorderOff

\* a new invocation reaches its first await
Starts(rec) == bh' = bh (+) SetToBag({rec})

\* the invocation r goes on to its next await
Goes(r, rec) == bh' = (bh (-) SetToBag({r})) (+) SetToBag({rec})

\* the invocation r returns or raises
Ends(r) == bh' = bh (-) SetToBag({r})

\* what a step that ended the invocation r without saving did
Ended(kind, r, status) ==
    [kind |-> kind, cmd |-> r.cmd, status |-> status, idx |-> r.idx]

\* an exception leaves the invocation r
Raises(r, why) ==
    /\ Ends(r)
    /\ bjust' = Ended("raise", r, why)

\* what a command that returns before its first await did
ReturnedAtOnce(cmd, status, idx) ==
    [kind |-> "return", cmd |-> cmd, status |-> status, idx |-> idx]

\* what a step that called save_json did
Saved(cmd, status, idx) ==
    [kind |-> "save", cmd |-> cmd, status |-> status, idx |-> idx]

\* cmd == "add_new": page._pending_new_name = payload.get("png_name")
CallAddNew ==
    /\ CanStart("add_new")
    /\ \E name \in NamesB : bpending' = name
    /\ Starts([cmd |-> "add_new", pc |-> "show", idx |-> 0 - 1])
    /\ bjust' = NoStep
    /\ UNCHANGED <<bstore, brec>>

\* the commands that take an index, load the store and navigate to the entry
IndexCommands ==
    {"reclip_index", "record_actions_for_index", "edit_index", "take_index"}

\* the status returned for an index outside the loaded list
InvalidStatus(cmd) ==
    IF cmd = "reclip_index" THEN "reclip_failed" ELSE "invalid_index"

\* where each command waits after its call
FirstAwait(cmd) ==
    IF cmd = "record_actions_for_index" THEN "show"
    ELSE IF cmd = "reclip_index" THEN "select"
    ELSE IF cmd = "edit_index" THEN "prompt"
    ELSE "capture"

\* idx = int(payload.get("index", -1)); data = load_json();
\* if 0 <= idx < len(data): entry = data[idx] ...
CallWithIndex ==
    /\ \E cmd \in IndexCommands, idx \in IndexPayloads :
          /\ CanStart(cmd)
          /\ IF ValidIndex(idx, bstore)
               THEN /\ Starts([cmd |-> cmd, pc |-> FirstAwait(cmd), idx |-> idx,
                               data |-> IF cmd = "reclip_index" THEN bstore ELSE << >>,
                               left |-> 1])
                    /\ bjust' = NoStep
               ELSE /\ bjust' = ReturnedAtOnce(cmd, InvalidStatus(cmd), idx)
                    /\ UNCHANGED bh
    /\ UNCHANGED <<bstore, bpending, brec>>

\* cmd == "take_all": data = load_json(); for i, entry in enumerate(data)
CallTakeAll ==
    /\ CanStart("take_all")
    /\ IF bstore = << >>
          THEN /\ bjust' = ReturnedAtOnce("take_all", "take_all_done", 0 - 1)
               /\ UNCHANGED bh
          ELSE /\ Starts([cmd |-> "take_all", pc |-> "capture", idx |-> 0 - 1,
                          data |-> << >>, left |-> Len(bstore)])
               /\ bjust' = NoStep
    /\ UNCHANGED <<bstore, bpending, brec>>

\* await page.goto(..., wait_until="networkidle"): a page that navigated has
\* lost its recorder
Navigated(outcome) ==
    brec' = IF outcome = "error" THEN brec ELSE NoRecorder

\* add_new and record_actions_for_index from page.goto to their return:
\* await page.evaluate("window.__showInlineRecorder && ...") opens the
\* recorder on the page just loaded.  The invocation then only waits for the
\* recorder's promise and touches nothing of the model, so it is taken as
\* ended here
ShowRecorder ==
    \E r \in Running, outcome \in GotoOutcomes, ok \in BOOLEAN :
       /\ r.pc = "show"
       /\ outcome # "ok" => ok
       /\ IF outcome # "ok"
             THEN Raises(r, "goto") /\ Navigated(outcome)
             ELSE IF ok
                     THEN /\ brec' = [by |-> r.cmd, idx |-> r.idx]
                          /\ Ends(r)
                          /\ bjust' = Ended("return", r, "recording_started")
                     ELSE Raises(r, "evaluate") /\ Navigated(outcome)
       /\ UNCHANGED <<bstore, bpending>>

\* edit_index from page.goto on: page.evaluate("(text, defaultVal) => ...",
\* "Edit screenshot name ...", entry.get("png_name", "")) passes two arguments
\* after the expression where page.evaluate takes one, so the call raises
\* TypeError; `answer` (what the user would have typed) is never asked for and
\* lines 938-949 are not reached
EditPrompt ==
    \E r \in Running, outcome \in GotoOutcomes, answer \in PromptAnswers :
       /\ r.pc = "prompt"
       /\ outcome # "ok" => answer = << >>
       /\ Ends(r)
       /\ bjust' = [kind |-> "raise", cmd |-> r.cmd,
                    status |-> IF outcome = "ok" THEN "TypeError" ELSE "goto",
                    idx |-> r.idx, answer |-> answer]
       /\ Navigated(outcome)
       /\ UNCHANGED <<bstore, bpending>>

\* the recorder's Stop: window.py_bridge({cmd: 'record_finished', events}).
\* The handler compiles the events and waits for the clip selection
RecorderStops ==
    /\ brec # NoRecorder
    /\ CanStart("record_finished")
    /\ \E evs \in RecordedLists, clock \in Clock :
          Starts([cmd |-> "record_finished", pc |-> "select",
                  idx |-> brec.idx,
                  actions |-> ConvertRecordedEventsToActions(evs, clock),
                  by |-> brec.by])
    /\ brec' = NoRecorder
    /\ bjust' = NoStep
    /\ UNCHANGED <<bstore, bpending>>

\* record_finished from `clip = await page.evaluate("window.__selectClip ...")`
\* to its return: the entry is made of the clip (zeros when it is no dict),
\* the compiled actions and page._pending_new_name, and appended to the store
\* loaded there and then.  Without a pending name the prompt is asked for with
\* two arguments after the expression, which raises TypeError
RecordFinishedSelect ==
    \E r \in Running, ok \in BOOLEAN, gesture \in Gestures :
       /\ r.cmd = "record_finished"
       /\ r.pc = "select"
       /\ ~ok => gesture.kind = "escape"
       /\ IF ~ok
             THEN Raises(r, "evaluate") /\ UNCHANGED bstore
             ELSE LET out  == SelectOutcome(gesture)
                      clip == IF IsDict(out) THEN ClipDict(out) ELSE ZeroClip
                      name == bpending
                  IN  IF name = NoName
                         THEN Raises(r, "TypeError") /\ UNCHANGED bstore
                         ELSE /\ Len(bstore) < MaxEntries
                              /\ bstore' = Append(bstore,
                                     [png_name |-> name, clip |-> clip,
                                      actions |-> r.actions])
                              /\ Ends(r)
                              /\ bjust' = [kind |-> "save", cmd |-> r.cmd,
                                           status |-> "entry_added", idx |-> r.idx,
                                           by |-> r.by]
       /\ UNCHANGED <<bpending, brec>>

\* entry["clip"] = clip; data[idx] = entry
ReclipStore(data, idx, clip) ==
    [data EXCEPT ![idx + 1].clip = ClipDict(clip)]

\* reclip_index from page.goto to its return: the replay, the swallowed
\* wait, `clip = await page.evaluate("window.__selectClip ...")`, the overlay
\* shown again, then save_json(data) when the clip is a dict and
\* "reclip_failed" otherwise
ReclipSelect ==
    \E r \in Running, outcome \in GotoOutcomes, ok \in BOOLEAN,
       gesture \in Gestures :
       /\ r.pc = "select"
       /\ r.cmd = "reclip_index"
       /\ outcome # "ok" => ok
       /\ ~(outcome = "ok" /\ ok) => gesture.kind = "escape"
       /\ Ends(r)
       /\ Navigated(outcome)
       /\ IF outcome # "ok" \/ ~ok
             THEN /\ bjust' = Ended("raise", r,
                                    IF outcome # "ok" THEN "goto" ELSE "evaluate")
                  /\ UNCHANGED bstore
             ELSE LET clip == SelectOutcome(gesture)
                  IN  IF IsDict(clip)
                         THEN /\ bstore' = ReclipStore(r.data, r.idx, clip)
                              /\ bjust' = [kind |-> "save", cmd |-> r.cmd,
                                           status |-> "reclip_ok", idx |-> r.idx,
                                           gesture |-> gesture.kind]
                         ELSE /\ UNCHANGED bstore
                              /\ bjust' = [kind |-> "return", cmd |-> r.cmd,
                                           status |-> "reclip_failed", idx |-> r.idx,
                                           gesture |-> gesture.kind]
       /\ UNCHANGED bpending

\* a faulty variant of Pop: the last entry is removed, whatever the index
PopLast(data, idx) == SubSeq(data, 1, Len(data) - 1)

\* data.pop(idx)
Pop(data, idx) ==
    SubSeq(data, 1, idx) \o SubSeq(data, idx + 2, Len(data))

\* cmd == "delete_index": load, pop and save with no await in between
DeleteIndex ==
    /\ \E idx \in IndexPayloads :
          IF ValidIndex(idx, bstore)
             THEN /\ bstore' = Pop(bstore, idx)
                  /\ bjust' = Saved("delete_index", "deleted", idx)
             ELSE /\ bjust' = ReturnedAtOnce("delete_index", "invalid_index", idx)
                  /\ UNCHANGED bstore
    /\ UNCHANGED <<bh, bpending, brec>>

\* for it in items: if isinstance(it, dict) and it.get("png_name"): append
RECURSIVE BulkAppend(_, _)
BulkAppend(data, items) ==
    IF items = << >> THEN data
    ELSE BulkAppend(IF Head(items).png_name # NoName
                       THEN Append(data, BulkEntry(Head(items)))
                       ELSE data,
                    Tail(items))

\* cmd == "bulk_add": load, append and save with no await in between
BulkAdd ==
    /\ \E items \in SeqsUpTo(BulkItems, 1) :
          LET data == BulkAppend(bstore, items)
          IN  /\ Len(data) <= MaxEntries
              /\ bstore' = data
              /\ bjust' = Saved("bulk_add", "bulk_added", 0 - 1)
    /\ UNCHANGED <<bh, bpending, brec>>

\* cmd == "bulk_delete": save_json([])
BulkDelete ==
    /\ bstore' = << >>
    /\ bjust' = Saved("bulk_delete", "bulk_deleted", 0 - 1)
    /\ UNCHANGED <<bh, bpending, brec>>

\* take_index / take_all: page.goto, the replay and the screenshot of one
\* entry (with its comparison, modelled in Spec), then the next entry of
\* take_all or the return
Capture ==
    \E r \in Running, outcome \in GotoOutcomes, ok \in BOOLEAN :
       /\ r.pc = "capture"
       /\ outcome # "ok" => ok
       /\ Navigated(outcome)
       /\ IF outcome # "ok" \/ ~ok
             THEN Raises(r, IF outcome # "ok" THEN "goto" ELSE "screenshot")
             ELSE IF r.left > 1
                     THEN /\ Goes(r, [r EXCEPT !.left = r.left - 1])
                          /\ bjust' = NoStep
                     ELSE /\ Ends(r)
                          /\ bjust' = Ended("return", r,
                                            IF r.cmd = "take_all"
                                               THEN "take_all_done" ELSE "taken")
       /\ UNCHANGED <<bstore, bpending>>

NextBridge ==
    \/ (CallAddNew /\ UNCHANGED <<cvars, rvars, tvars, svars, kvars>>)
    \/ (CallWithIndex /\ UNCHANGED <<cvars, rvars, tvars, svars, kvars>>)
    \/ (CallTakeAll /\ UNCHANGED <<cvars, rvars, tvars, svars, kvars>>)
    \/ (EditPrompt /\ UNCHANGED <<cvars, rvars, tvars, svars, kvars>>)
    \/ (ShowRecorder /\ UNCHANGED <<cvars, rvars, tvars, svars, kvars>>)
    \/ (RecorderStops /\ UNCHANGED <<cvars, rvars, tvars, svars, kvars>>)
    \/ (RecordFinishedSelect /\ UNCHANGED <<cvars, rvars, tvars, svars, kvars>>)
    \/ (ReclipSelect /\ UNCHANGED <<cvars, rvars, tvars, svars, kvars>>)
    \/ (DeleteIndex /\ UNCHANGED <<cvars, rvars, tvars, svars, kvars>>)
    \/ (BulkAdd /\ UNCHANGED <<cvars, rvars, tvars, svars, kvars>>)
    \/ (BulkDelete /\ UNCHANGED <<cvars, rvars, tvars, svars, kvars>>)
    \/ (Capture /\ UNCHANGED <<cvars, rvars, tvars, svars, kvars>>)

SpecBridge == InitBridge /\ [][NextBridge]_vars

(***************************************************************************)
(* Claims about the bridge.                                                *)
(***************************************************************************)

\* the step just taken ended a reclip_index whose selection was cancelled
\* with Escape
ReclipCancelled(just) ==
    /\ just.kind \in {"return", "save"}
    /\ just.cmd = "reclip_index"
    /\ "gesture" \in DOMAIN just
    /\ just.gesture = "escape"

\* C21: Escape resolves the selection to the explicit no-selection value, and a
\* reclip_index whose selection was cancelled leaves the Entry Store as it was
\* and returns "reclip_failed"
C21_CancelledReclipKeepsStore ==
    [][ReclipCancelled(bjust') /\ bh' # bh
           => /\ SelectOutcome([kind |-> "escape"]) = NoSelection
              /\ bstore' = bstore
              /\ bjust'.status = "reclip_failed"]_vars

\* a reclip_index of an existing entry was cancelled with Escape
C21_Witness ==
    /\ ReclipCancelled(bjust)
    /\ bjust.status = "reclip_failed"
    /\ ValidIndex(bjust.idx, bstore)

\* a clip narrower or lower than 5 px (which includes one within 5 px of the
\* all-zero default rectangle)
Degenerate(clip) == clip.width < 5 \/ clip.height < 5

\* C22: no entry of the store holds a degenerate clip other than the default
\* clip that stands for "capture the full page"
C22_NoDegenerateClipStored ==
    \A i \in 1..Len(bstore) :
       Degenerate(bstore[i].clip) => bstore[i].clip = ZeroClip

\* C24: at most one command is between its call and its return at any time,
\* so the stages of one command never overlap those of another
C24_OnePipelineAtATime == BagCardinality(bh) <= 1

\* the commands of the step just taken that are no explicit re-record and
\* remove no entry
KeepsActions(just) ==
    \/ just.kind = "none"
    \/ /\ just.kind # "none"
       /\ just.cmd \in {"reclip_index", "edit_index", "take_index", "take_all",
                        "bulk_add", "add_new"}
    \/ /\ just.kind # "none"
       /\ just.cmd = "record_finished"
       /\ "by" \in DOMAIN just => just.by = "add_new"

\* C25: a step of a command other than an explicit re-record leaves the
\* actions of every entry that was in the store as they were
C25_ActionsOnlyChangedByReRecord ==
    [][KeepsActions(bjust')
           => \A i \in 1..Len(bstore) :
                 /\ i <= Len(bstore')
                 /\ bstore'[i].actions = bstore[i].actions]_vars

\* the step ends the record_finished r of a recorder that
\* record_actions_for_index had opened, its region selection having returned
ReRecordEnds(r) ==
    /\ r.cmd = "record_finished"
    /\ r.by = "record_actions_for_index"
    /\ bh' = bh (-) SetToBag({r})
    /\ bjust'.status # "evaluate"

\* C26: a re-record for index i (record_actions_for_index, then the
\* recorder's record_finished) replaces the actions of entry i by the newly
\* recorded list and leaves the length of the store as it was
C26_ReRecordReplacesActions ==
    [][\A r \in Running :
          ReRecordEnds(r)
             => /\ Len(bstore') = Len(bstore)
                /\ ValidIndex(r.idx, bstore')
                /\ bstore'[r.idx + 1].actions = r.actions]_vars

\* a path (ArtifactPath puts the name into it as it is) that names a file
\* directly under SCREENSHOT_DIR
FilesystemSafe(path) == \A k \in 1..Len(path) : path[k] # "/"

\* C27: every entry's name maps to a filesystem-safe .png path and no two
\* entries of the store map to the same file
C27_EntriesAndFilesOneToOne ==
    \A i \in 1..Len(bstore) :
       /\ FilesystemSafe(ArtifactPath(bstore[i].png_name))
       /\ \A j \in 1..Len(bstore) :
             ArtifactPath(bstore[j].png_name) = ArtifactPath(bstore[i].png_name)
                => j = i

\* C28: a capture of an entry whose artifact already holds the very image the
\* page shows (as it does on the second of two runs with no page change in
\* between) reports no visual change
C28_RepeatedCaptureReportsNoChange ==
    (tjust.kind \in {"compare", "full_page"} /\ tjust.prev # NoFile
        /\ tjust.new = tjust.prev)
       => ~tjust.changed

\* C29: the save of a reclip_index loses no write committed since its load:
\* the store it leaves is the store it found, but for the clip of its entry
C29_NoStaleWriteBack ==
    [][bjust'.kind = "save" /\ bjust'.cmd = "reclip_index"
           => /\ Len(bstore') = Len(bstore)
              /\ \A i \in 1..Len(bstore) :
                    /\ bstore'[i].png_name = bstore[i].png_name
                    /\ bstore'[i].actions = bstore[i].actions
                    /\ i # bjust'.idx + 1 => bstore'[i].clip = bstore[i].clip]_vars

\* the step just taken ended an edit_index whose page had loaded, for an entry
\* that is in the store
EditEnded(just, data) ==
    /\ just.kind # "none"
    /\ just.cmd = "edit_index"
    /\ "answer" \in DOMAIN just
    /\ just.status # "goto"
    /\ ValidIndex(just.idx, data)

\* C30: after an edit_index with a non-blank new name the entry's png_name is
\* the trimmed new name; with a blank one it is the name it was
C30_EditRenamesEntry ==
    [][EditEnded(bjust', bstore)
           => /\ ValidIndex(bjust'.idx, bstore')
              /\ bstore'[bjust'.idx + 1].png_name =
                    IF Strip(bjust'.answer) # << >>
                       THEN Strip(bjust'.answer)
                       ELSE bstore[bjust'.idx + 1].png_name]_vars

\* the step just taken ended a record_finished that appended an entry, its
\* recorder having been opened by another command than add_new
OtherRecordingSaved(just) ==
    /\ just.kind = "save"
    /\ just.cmd = "record_finished"
    /\ just.by # "add_new"

\* C32: the entry made by a recording that add_new did not start does not get
\* the name an add_new had passed
C32_AddNewNameUsedOnce ==
    [][OtherRecordingSaved(bjust')
           => bstore'[Len(bstore')].png_name # bpending]_vars

\* the commands that take an index
Indexed ==
    {"delete_index", "take_index", "reclip_index", "record_actions_for_index",
     "edit_index"}

\* the step just taken was the call of an indexed command with an index
\* outside the store (the call returned before any await)
CalledOutOfRange(just, data) ==
    /\ just.kind # "none"
    /\ just.cmd \in Indexed
    /\ bh' = bh
    /\ just.idx < 0 \/ just.idx >= Len(data)

====
